---- MODULE Spec2Model ----
(***************************************************************************)
(* Model of convert-wav-to-flac.py: a source tree is mirrored under        *)
(* destination/<drive name>; *.wav files are handed to ffmpeg, every other *)
(* file is copied byte for byte, failures are appended to a csv log.       *)
(*                                                                         *)
(* File and directory names are sequences of one-character strings, so     *)
(* that lower(), startswith(), endswith() and splitext() are computed.     *)
(* Sizes are counted in TiB (1024**4 bytes), the unit of the storage limit.*)
(***************************************************************************)
EXTENDS Integers, Sequences, FiniteSets, TLC

\* ------------------------------------------------------------------ bounds
\* Number of invocations of main() that are explored.
MaxRuns == 2
\* Number of per-file failures (an IOError, a full destination drive, a failing
\* ffmpeg) the environment injects over all runs; after a per-file failure the
\* run goes on. Kills and uncreatable directories end a run and are not counted.
MaxFaults == 2

\* ------------------------------------------------------- program constants
MAX_STORAGE_LIMIT_TB == 18
\* In units of 1024**4 bytes.
MAX_STORAGE_LIMIT_BYTES == MAX_STORAGE_LIMIT_TB

\* ------------------------------------------------------------ str methods
UpperToLower ==
  [c \in {"A","B","C","D","E","F","G","H","I","J","K","L","M",
          "N","O","P","Q","R","S","T","U","V","W","X","Y","Z"} |->
     CASE c = "A" -> "a" [] c = "B" -> "b" [] c = "C" -> "c" [] c = "D" -> "d"
       [] c = "E" -> "e" [] c = "F" -> "f" [] c = "G" -> "g" [] c = "H" -> "h"
       [] c = "I" -> "i" [] c = "J" -> "j" [] c = "K" -> "k" [] c = "L" -> "l"
       [] c = "M" -> "m" [] c = "N" -> "n" [] c = "O" -> "o" [] c = "P" -> "p"
       [] c = "Q" -> "q" [] c = "R" -> "r" [] c = "S" -> "s" [] c = "T" -> "t"
       [] c = "U" -> "u" [] c = "V" -> "v" [] c = "W" -> "w" [] c = "X" -> "x"
       [] c = "Y" -> "y" [] c = "Z" -> "z"]

\* str.lower()
lower(s) ==
  [i \in 1..Len(s) |-> IF s[i] \in DOMAIN UpperToLower THEN UpperToLower[s[i]] ELSE s[i]]

\* str.startswith(p)
startswith(s, p) == Len(s) >= Len(p) /\ SubSeq(s, 1, Len(p)) = p

\* str.endswith(p)
endswith(s, p) == Len(s) >= Len(p) /\ SubSeq(s, Len(s) - Len(p) + 1, Len(s)) = p

DotWav == <<".", "w", "a", "v">>
DotFlac == <<".", "f", "l", "a", "c">>
SystemVolumeInformation ==
  <<"s","y","s","t","e","m"," ","v","o","l","u","m","e"," ",
    "i","n","f","o","r","m","a","t","i","o","n">>

\* os.path.splitext(name)[0]: cut at the last dot, unless only dots precede it.
splitext_root(name) ==
  LET dots == {i \in 1..Len(name) : name[i] = "."}
      d == IF dots = {} THEN 0 ELSE CHOOSE i \in dots : \A j \in dots : j <= i
  IN IF d > 0 /\ (\E j \in 1..(d - 1) : name[j] # ".") THEN SubSeq(name, 1, d - 1)
     ELSE name

\* file.lower().endswith('.wav')
IsWavMutant(name) == endswith(name, DotWav)
IsWav(name) == endswith(lower(name), DotWav)

\* not d.startswith('.') and d.lower() != 'system volume information'
KeepDirMutant(d) == ~startswith(d, <<".">>) /\ d # SystemVolumeInformation
KeepDir(d) == ~startswith(d, <<".">>) /\ lower(d) # SystemVolumeInformation

\* ------------------------------------------------------- the source tree
\* The source tree the runs are given: each directory (a path relative to the
\* source root) with its subdirectories and files in listing order.
D_m == <<"m">>
D_l == <<"l">>
D_hidden == <<".", "T">>
D_svi ==
  <<"S","y","s","t","e","m"," ","V","o","l","u","m","e"," ",
    "I","n","f","o","r","m","a","t","i","o","n">>
F_n_txt == <<"n", ".", "t", "x", "t">>
F_B_WAV == <<"B", ".", "W", "A", "V">>
F_g_bin == <<"g", ".", "b", "i", "n">>
F_owav == <<"o", "w", "a", "v">>
F_x_wav == <<"x", ".", "w", "a", "v">>
F_i_dat == <<"i", ".", "d", "a", "t">>
F_k_wav == <<"k", ".", "w", "a", "v">>
F_j_dat == <<"j", ".", "d", "a", "t">>

SourceDirs ==
  {<<>>, <<D_m>>, <<D_m, D_l>>, <<D_m, D_svi>>, <<D_hidden>>, <<D_hidden, D_l>>, <<D_svi>>}

SubDirs(path) ==
  CASE path = <<>> -> <<D_hidden, D_m, D_svi>>
    [] path = <<D_m>> -> <<D_l, D_svi>>
    [] path = <<D_hidden>> -> <<D_l>>
    [] OTHER -> <<>>

Files(path) ==
  CASE path = <<>> -> <<F_n_txt>>
    [] path = <<D_m>> -> <<F_B_WAV, F_g_bin>>
    [] path = <<D_m, D_l>> -> <<F_owav>>
    [] path = <<D_hidden>> -> <<F_x_wav>>
    [] path = <<D_svi>> -> <<F_i_dat>>
    [] path = <<D_m, D_svi>> -> <<F_k_wav>>
    [] path = <<D_hidden, D_l>> -> <<F_j_dat>>
    [] OTHER -> <<>>

AllFiles ==
  UNION {{[dir |-> d, name |-> Files(d)[i]] : i \in 1..Len(Files(d))} : d \in SourceDirs}

NoFile == [dir |-> <<>>, name |-> <<>>]

\* ------------------------------------------------------------- os.walk
RECURSIVE Flatten(_)
Flatten(ss) == IF ss = <<>> THEN <<>> ELSE Head(ss) \o Flatten(Tail(ss))

\* dirs[:] = [d for d in dirs if ...]
PrunedDirs(path) == SelectSeq(SubDirs(path), KeepDir)

\* One iteration of `for root, dirs, files in os.walk(source)`: the surviving
\* subdirectories are mirrored, then the files of root are handled, and only
\* then does os.walk descend into the surviving subdirectories, in order.
RECURSIVE Walk(_)
Walk(path) ==
  LET kept == PrunedDirs(path)
      mk == [i \in 1..Len(kept) |->
               [type |-> "dir", dir |-> path \o <<kept[i]>>, name |-> <<>>]]
      fs == [i \in 1..Len(Files(path)) |->
               [type |-> "file", dir |-> path, name |-> Files(path)[i]]]
      below == [i \in 1..Len(kept) |-> Walk(path \o <<kept[i]>>)]
  IN mk \o fs \o Flatten(below)

Events == Walk(<<>>)
NEvents == Len(Events)

\* os.path.splitext(output_file_path)[0] + '.flac', relative to the drive folder
FlacPath(f) == [dir |-> f.dir, name |-> splitext_root(f.name) \o DotFlac]

\* os.path.join(drive_folder, relative_file_path), relative to the drive folder
OutputPath(f) == IF IsWav(f.name) THEN FlacPath(f) ELSE f

DstPaths == {OutputPath(f) : f \in AllFiles}

Prefixes(path) == {SubSeq(path, 1, n) : n \in 0..Len(path)}

\* os.makedirs(destination_dir_path, exist_ok=True)
makedirsMutant(dirs, path) == dirs
makedirs(dirs, path) == dirs \cup Prefixes(path)

\* ------------------------------------------------------------------ inputs
\* File sizes (os.path.getsize), in TiB.
Sizes == {6, 13}
\* Files whose size is varied; the others have the first size.
VariedFiles ==
  {[dir |-> <<D_m>>, name |-> F_g_bin]}
\* Free space get_available_space can report for the destination drive.
AvailableSpaces == {0, MAX_STORAGE_LIMIT_BYTES}

\* ----------------------------------------------------------------- os.path
Sep == "/"

\* os.path.join(a, b): an absolute b discards a.
os_path_join(a, b) == IF startswith(b, <<Sep>>) THEN b ELSE a \o <<Sep>> \o b

\* os.path.basename(p): what follows the last separator.
basename(p) ==
  LET seps == {i \in 1..Len(p) : p[i] = Sep}
      k == IF seps = {} THEN 0 ELSE CHOOSE i \in seps : \A j \in seps : j <= i
  IN SubSeq(p, k + 1, Len(p))

\* os.path.splitdrive(p)[0]: a drive letter with its colon, empty otherwise.
splitdrive_drive(p) == IF Len(p) >= 2 /\ p[2] = ":" THEN SubSeq(p, 1, 2) ELSE <<>>

\* source_dir and destination_dir of config.json.
SourcePath == <<Sep, "s", "r", "c">>
DestinationPath == <<Sep, "d">>
\* os.path.basename(os.path.normpath(source))
SourceBaseName == basename(SourcePath)
\* Values get_drive_name(source) can return: a volume label, equal to the base
\* name of the source or not, or (the fallback) its argument.
DriveNames == {<<"s", "r", "c">>, <<"V", "O", "L">>, SourcePath}
\* Top-level entries the destination holds before the first run.
OtherEntries == {{}, {<<"o", "l", "d">>}}

VARIABLES
  size,               \* source: size of each file
  driveName,          \* value get_drive_name returns for the source
  dstOther,           \* destination: top-level entries other than the drive folder
  destExists,         \* destination: the destination directory exists
  dstDirs,            \* destination: directories under the drive folder (<<>> is the folder)
  dstFiles,           \* destination: state of each path under the drive folder
  log,                \* rows of the failure csv
  pc,                 \* "idle" | "walk" | "ended"
  mode,               \* "Resume" (compare_and_copy) | "Fresh" (regular_copy)
  pos,                \* index in Events of the entry handled next
  total_copied_size,  \* local of compare_and_copy / regular_copy
  runNo,              \* number of invocations of main so far
  status,             \* how the current run ended
  successPrinted,     \* main printed 'Successfully copied directory ...'
  lastAct,            \* what the most recent step of the walk did
  copies,             \* calls of copy_file in the current run
  invocations,        \* calls of convert_wav_to_flac in the current run
  clean,              \* no step of the current run failed or was abandoned
  prevStatus,         \* status of the run before the current one
  prevClean,          \* clean of the run before the current one
  done,               \* source files whose copy or conversion has completed
  faults,             \* per-file failures injected so far
  doneAtStart         \* done when the current run started

vars ==
  <<size, driveName, dstOther, destExists, dstDirs, dstFiles, log, pc, mode, pos,
    total_copied_size, runNo, status, successPrinted, lastAct, copies, invocations,
    clean, prevStatus, prevClean, done, faults, doneAtStart>>

source == <<size, driveName, dstOther>>
history == <<clean, prevStatus, prevClean, doneAtStart, faults>>

\* get_drive_name(drive): the volume label, or the argument itself as fallback;
\* either way the value the environment fixed for the source drive.
get_drive_name == driveName

\* drive_folder = os.path.join(destination, drive_name)
drive_folder == os_path_join(DestinationPath, get_drive_name)

\* The drive folder is an entry of the destination directory.
InDestination == drive_folder = DestinationPath \o <<Sep>> \o basename(drive_folder)

\* State of a path under the drive folder before the first run: when the drive
\* folder is the source root, the source's own directories and files are there.
InitialDirs == IF drive_folder = SourcePath THEN SourceDirs ELSE {}
InitialFile(p) ==
  IF drive_folder = SourcePath /\ p \in AllFiles THEN "complete" ELSE "absent"
InitialFiles == [p \in DstPaths |-> InitialFile(p)]

NoAct ==
  [pos |-> 0, file |-> NoFile, called |-> "none", result |-> "none",
   parentOk |-> TRUE, logged |-> 0, size |-> 0, before |-> "absent",
   added |-> 0, encoder |-> FALSE, channels |-> -1]

Init ==
  /\ size \in {s \in [AllFiles -> Sizes] : \A f \in AllFiles \ VariedFiles : s[f] = 6}
  /\ driveName \in DriveNames
  /\ dstOther \in OtherEntries
  /\ destExists = (dstOther # {})
  /\ dstDirs = InitialDirs
  /\ dstFiles = InitialFiles
  /\ log = <<>>
  /\ pc = "idle"
  /\ mode = "none"
  /\ pos = 0
  /\ total_copied_size = 0
  /\ runNo = 0
  /\ status = "none"
  /\ successPrinted = FALSE
  /\ lastAct = NoAct
  /\ copies = 0
  /\ invocations = 0
  /\ clean = TRUE
  /\ prevStatus = "none"
  /\ prevClean = TRUE
  /\ done = {}
  /\ faults = 0
  /\ doneAtStart = {}

\* ---------------------------------------------------------------- main
\* copy_directory returns to main without raising when the walk ends, when the
\* storage limit makes the walk return, and when a directory cannot be created;
\* main then prints the success line (line 236). An exception reaches one of
\* main's handlers, which print an error instead.
main_prints_success(st) == st \in {"completed", "ceiling", "fatal_dir"}

EndRun(st) ==
  /\ pc' = "ended"
  /\ status' = st
  /\ successPrinted' = main_prints_success(st)

\* os.listdir(destination)
listdir_destination(dirs) ==
  dstOther \cup (IF InDestination /\ <<>> \in dirs THEN {basename(drive_folder)} ELSE {})

\* first_folder_in_destination and first_folder_in_destination == first_folder_in_source
run_mode(first) == IF first = SourceBaseName THEN "Resume" ELSE "Fresh"

\* main up to the choice between compare_and_copy and regular_copy.
StartRun ==
  /\ pc \in {"idle", "ended"}
  /\ runNo < MaxRuns
  \* a run whose drive folder is the source root leaves .flac files in the source
  \* tree; runs over a source changed in that way are not explored
  /\ runNo >= 1 => drive_folder # SourcePath
  /\ runNo' = runNo + 1
  /\ prevStatus' = status
  /\ prevClean' = clean
  /\ clean' = TRUE
  /\ doneAtStart' = done
  /\ lastAct' = NoAct
  /\ copies' = 0
  /\ invocations' = 0
  /\ total_copied_size' = 0
  /\ UNCHANGED <<source, dstFiles, log, done, faults>>
  /\ \E made \in {"both", "destination_only", "none"} :
       CASE made = "none" ->
              \* os.makedirs(destination) raises OSError
              /\ ~destExists
              /\ EndRun("fatal_dir")
              /\ mode' = "none" /\ pos' = 0
              /\ UNCHANGED <<destExists, dstDirs>>
         [] made = "destination_only" ->
              \* os.makedirs(drive_folder) raises OSError
              /\ <<>> \notin dstDirs
              /\ EndRun("fatal_dir")
              /\ destExists' = TRUE
              /\ mode' = "none" /\ pos' = 0
              /\ UNCHANGED dstDirs
         [] made = "both" ->
              /\ destExists' = TRUE
              /\ dstDirs' = makedirs(dstDirs, <<>>)
              /\ IF listdir_destination(dstDirs') = {}
                 THEN \* os.listdir(destination)[0] raises IndexError
                      /\ EndRun("exception")
                      /\ mode' = "none" /\ pos' = 0
                 ELSE /\ \E first \in listdir_destination(dstDirs') :
                           mode' = run_mode(first)
                      /\ pc' = "walk" /\ pos' = 1
                      /\ status' = "running" /\ successPrinted' = FALSE

InWalk == pc = "walk" /\ pos <= NEvents
Entry == Events[pos]
EntryFile == [dir |-> Entry.dir, name |-> Entry.name]

\* ------------------------------------------------------------ log_failure
\* writer.writerow([file_name, timestamp, user, drive_name, directory]) on a file
\* opened with mode 'a'; the callers pass os.path.splitdrive(input_file_path)[0]
\* as drive_name. The clock and the login name are left out of the row.
log_failureMutant(lg, file_name, directory) ==
  <<[fileName |-> file_name, drive |-> splitdrive_drive(SourcePath),
     directory |-> directory]>>
log_failure(lg, file_name, directory) ==
  Append(lg, [fileName |-> file_name, drive |-> splitdrive_drive(SourcePath),
              directory |-> directory])

\* ------------------------------------------------------------- copy_file
\* `except IOError` of copy_file: the failure is logged there and not raised again.
copy_file_exceptMutant(lg, f) == log_failure(log_failure(lg, f.name, f.dir), f.name, f.dir)
copy_file_except(lg, f) == log_failure(lg, f.name, f.dir)

\* if file_size > available_space: print and return (lines 86-88).
copy_file_no_spaceMutant(lg, f) == log_failure(lg, f.name, f.dir)
copy_file_no_space(lg, f) == lg

\* What the environment does to one copy: every call succeeds, or getsize, the
\* opening of the two files, or the copying of the bytes raises IOError.
IOs == {"ok", "getsize", "open", "copy"}

copy_file(f, avail, io) ==
  LET out == OutputPath(f)
  IN IF io = "getsize"
     THEN [files |-> dstFiles, log |-> copy_file_except(log, f), result |-> "ioerror"]
     ELSE IF size[f] > avail
     THEN [files |-> dstFiles, log |-> copy_file_no_space(log, f), result |-> "nospace"]
     ELSE IF io = "open" \/ f.dir \notin dstDirs
     THEN [files |-> dstFiles, log |-> copy_file_except(log, f), result |-> "ioerror"]
     ELSE IF io = "copy"
     THEN [files |-> [dstFiles EXCEPT ![out] = "partial"],
           log |-> copy_file_except(log, f), result |-> "ioerror"]
     ELSE [files |-> [dstFiles EXCEPT ![out] = "complete"], log |-> log,
           result |-> "copied"]

\* ---------------------------------------- the opaque branch of the two walks
\* total_copied_size += file_size; if total_copied_size > MAX_STORAGE_LIMIT_BYTES
OverLimitMutant(newTotal, file_size) == newTotal - file_size > MAX_STORAGE_LIMIT_BYTES
OverLimit(newTotal, file_size) == newTotal > MAX_STORAGE_LIMIT_BYTES

\* `return` under the limit test: the walk function returns.
LimitReturnsMutant == FALSE
LimitReturns == TRUE

\* if not os.path.exists(output_file_path)
NeedsCopyMutant(exists) == TRUE
NeedsCopy(exists) == ~exists

\* compare_and_copy, lines 141-157: the branch for a file that is not a .wav.
compare_and_copy_opaque(f, getsize_ok, avail, io) ==
  LET t == total_copied_size + size[f]
  IN IF ~getsize_ok
     THEN [total |-> total_copied_size, files |-> dstFiles,
           log |-> log_failure(log, f.name, f.dir), result |-> "ioerror",
           called |-> "none", stop |-> FALSE]
     ELSE IF OverLimit(t, size[f])
     THEN [total |-> t, files |-> dstFiles, log |-> log, result |-> "ceiling",
           called |-> "none", stop |-> LimitReturns]
     ELSE IF ~NeedsCopy(dstFiles[OutputPath(f)] # "absent")
     THEN [total |-> t, files |-> dstFiles, log |-> log, result |-> "skip",
           called |-> "none", stop |-> FALSE]
     ELSE LET c == copy_file(f, avail, io)
          IN [total |-> t, files |-> c.files, log |-> c.log, result |-> c.result,
              called |-> "copy_file", stop |-> FALSE]

\* regular_copy, lines 184-200: the branch for a file that is not a .wav.
regular_copy_opaqueMutant(f, getsize_ok, avail, io) ==
  LET t == total_copied_size + size[f]
      c == copy_file(f, avail, io)
  IN IF ~getsize_ok
     THEN [total |-> total_copied_size, files |-> dstFiles,
           log |-> log_failure(log, f.name, f.dir), result |-> "ioerror",
           called |-> "none", stop |-> FALSE]
     ELSE IF OverLimit(t, size[f])
     THEN [total |-> t, files |-> dstFiles, log |-> log, result |-> "ceiling",
           called |-> "none", stop |-> LimitReturns]
     ELSE [total |-> t, files |-> c.files, log |-> c.log, result |-> c.result,
           called |-> "copy_file", stop |-> FALSE]
regular_copy_opaque(f, getsize_ok, avail, io) ==
  LET t == total_copied_size + size[f]
  IN IF ~getsize_ok
     THEN [total |-> total_copied_size, files |-> dstFiles,
           log |-> log_failure(log, f.name, f.dir), result |-> "ioerror",
           called |-> "none", stop |-> FALSE]
     ELSE IF OverLimit(t, size[f])
     THEN [total |-> t, files |-> dstFiles, log |-> log, result |-> "ceiling",
           called |-> "none", stop |-> LimitReturns]
     ELSE IF ~NeedsCopy(dstFiles[OutputPath(f)] # "absent")
     THEN [total |-> t, files |-> dstFiles, log |-> log, result |-> "skip",
           called |-> "none", stop |-> FALSE]
     ELSE LET c == copy_file(f, avail, io)
          IN [total |-> t, files |-> c.files, log |-> c.log, result |-> c.result,
              called |-> "copy_file", stop |-> FALSE]

\* The walk copy_directory chose handles the file.
OpaqueOutcome(f, getsize_ok, avail, io) ==
  IF mode = "Resume" THEN compare_and_copy_opaque(f, getsize_ok, avail, io)
  ELSE regular_copy_opaque(f, getsize_ok, avail, io)

\* One opaque file in compare_and_copy (lines 141-157) or regular_copy (184-200).
ProcessOpaque ==
  /\ InWalk
  /\ Entry.type = "file"
  /\ ~IsWav(Entry.name)
  /\ \E getsize_ok \in BOOLEAN, avail \in AvailableSpaces, io \in IOs :
       LET f == EntryFile
           o == OpaqueOutcome(f, getsize_ok, avail, io)
           injected == o.result \in {"ioerror", "nospace"} /\ f.dir \in dstDirs
       IN /\ injected => faults < MaxFaults
          /\ faults' = IF injected THEN faults + 1 ELSE faults
          /\ total_copied_size' = o.total
          /\ dstFiles' = o.files
          /\ log' = o.log
          /\ lastAct' = [pos |-> pos, file |-> f, called |-> o.called,
                         result |-> o.result, parentOk |-> f.dir \in dstDirs,
                         logged |-> Len(o.log) - Len(log), size |-> size[f],
                         before |-> dstFiles[OutputPath(f)],
                         added |-> o.total - total_copied_size,
                         encoder |-> FALSE, channels |-> -1]
          /\ copies' = IF o.called = "copy_file" THEN copies + 1 ELSE copies
          /\ clean' = (clean /\ o.result \in {"skip", "copied", "ceiling"})
          /\ done' = IF o.result = "copied" THEN done \cup {f} ELSE done
          /\ IF o.stop
             THEN EndRun("ceiling") /\ UNCHANGED pos
             ELSE pos' = pos + 1 /\ UNCHANGED <<pc, status, successPrinted>>
  /\ UNCHANGED <<source, destExists, dstDirs, mode, runNo, invocations, prevStatus,
                 prevClean, doneAtStart>>

\* The process is killed while copy_file is writing the destination file.
KillDuringCopy ==
  /\ InWalk
  /\ Entry.type = "file"
  /\ ~IsWav(Entry.name)
  /\ LET f == EntryFile
         t == total_copied_size + size[f]
     IN /\ ~OverLimit(t, size[f])
        /\ NeedsCopy(dstFiles[OutputPath(f)] # "absent")
        /\ f.dir \in dstDirs
        /\ total_copied_size' = t
        /\ dstFiles' = [dstFiles EXCEPT ![OutputPath(f)] = "partial"]
        /\ lastAct' = [pos |-> pos, file |-> f, called |-> "copy_file",
                       result |-> "killed", parentOk |-> TRUE, logged |-> 0,
                       size |-> size[f], before |-> dstFiles[OutputPath(f)],
                       added |-> size[f], encoder |-> FALSE, channels |-> -1]
  /\ copies' = copies + 1
  /\ clean' = FALSE
  /\ EndRun("interrupted")
  /\ UNCHANGED <<source, destExists, dstDirs, log, mode, pos, runNo, invocations,
                 prevStatus, prevClean, done, faults, doneAtStart>>

\* --------------------------------------------------- convert_wav_to_flac
\* What ffprobe prints: an integer, or nothing (it failed).
Probes == {"int", "noint"}

\* get_wav_channels: subprocess.run is called without check=True, so it never
\* raises CalledProcessError and `return 0` is not reached; int(stdout) is the
\* channel count when ffprobe printed one and raises ValueError otherwise.
get_wav_channels(probe) ==
  IF probe = "int" THEN [raised |-> "none", channels |-> 2]
  ELSE [raised |-> "ValueError", channels |-> -1]

\* ffmpeg: exit status 0 with the output written, or non-zero with the output
\* untouched or partly written.
Encodes == {"ok", "fail", "fail_partial"}

\* `except subprocess.CalledProcessError` of convert_wav_to_flac prints the
\* failure and returns: nothing is raised to the caller.
convert_wav_to_flac(f, probe, enc) ==
  LET out == FlacPath(f)
      p == get_wav_channels(probe)
  IN IF p.raised # "none"
     THEN [files |-> dstFiles, result |-> "probefail", raised |-> p.raised,
           encoder |-> FALSE, channels |-> p.channels]
     ELSE IF enc = "fail" \/ f.dir \notin dstDirs
     THEN [files |-> dstFiles, result |-> "encodefail", raised |-> "none",
           encoder |-> TRUE, channels |-> p.channels]
     ELSE IF enc = "fail_partial"
     THEN [files |-> [dstFiles EXCEPT ![out] = "partial"], result |-> "encodefail",
           raised |-> "none", encoder |-> TRUE, channels |-> p.channels]
     ELSE [files |-> [dstFiles EXCEPT ![out] = "complete"], result |-> "converted",
           raised |-> "none", encoder |-> TRUE, channels |-> p.channels]

\* compare_and_copy: if not os.path.exists(flac_file_path); regular_copy: always.
NeedsConvertMutant(m, exists) == TRUE
NeedsConvertBothModes(m, exists) == ~exists
NeedsConvert(m, exists) == m = "Fresh" \/ ~exists

\* One .wav file in compare_and_copy (lines 129-139) or regular_copy (174-182).
ProcessAudio ==
  /\ InWalk
  /\ Entry.type = "file"
  /\ IsWav(Entry.name)
  /\ LET f == EntryFile
         exists == dstFiles[FlacPath(f)] # "absent"
     IN IF ~NeedsConvert(mode, exists)
        THEN /\ lastAct' = [pos |-> pos, file |-> f, called |-> "none",
                            result |-> "skip", parentOk |-> f.dir \in dstDirs,
                            logged |-> 0, size |-> size[f],
                            before |-> dstFiles[FlacPath(f)], added |-> 0,
                            encoder |-> FALSE, channels |-> -1]
             /\ pos' = pos + 1
             /\ UNCHANGED <<dstFiles, log, invocations, clean, done, faults, pc,
                            status, successPrinted>>
        ELSE \E probe \in Probes, enc \in Encodes :
               LET c == convert_wav_to_flac(f, probe, enc)
                   \* except subprocess.CalledProcessError of the walk
                   lg == IF c.raised = "CalledProcessError"
                         THEN log_failure(log, f.name, f.dir) ELSE log
                   \* ffmpeg refusing to overwrite an existing output is no fault
                   injected == /\ c.result = "encodefail"
                               /\ f.dir \in dstDirs
                               /\ ~(exists /\ enc = "fail")
               IN /\ injected => faults < MaxFaults
                  /\ faults' = IF injected THEN faults + 1 ELSE faults
                  /\ dstFiles' = c.files
                  /\ log' = lg
                  /\ lastAct' = [pos |-> pos, file |-> f, called |-> "convert",
                                 result |-> c.result, parentOk |-> f.dir \in dstDirs,
                                 logged |-> Len(lg) - Len(log), size |-> size[f],
                                 before |-> dstFiles[FlacPath(f)], added |-> 0,
                                 encoder |-> c.encoder, channels |-> c.channels]
                  /\ invocations' = invocations + 1
                  /\ clean' = (clean /\ c.result = "converted")
                  /\ done' = IF c.result = "converted" THEN done \cup {f} ELSE done
                  /\ IF c.raised = "ValueError"
                     THEN EndRun("exception") /\ UNCHANGED pos
                     ELSE pos' = pos + 1 /\ UNCHANGED <<pc, status, successPrinted>>
  /\ UNCHANGED <<source, destExists, dstDirs, mode, total_copied_size, runNo, copies,
                 prevStatus, prevClean, doneAtStart>>

\* The process is killed while ffmpeg is writing the .flac file.
KillDuringConvert ==
  /\ InWalk
  /\ Entry.type = "file"
  /\ IsWav(Entry.name)
  /\ LET f == EntryFile
     IN /\ NeedsConvert(mode, dstFiles[FlacPath(f)] # "absent")
        /\ f.dir \in dstDirs
        /\ dstFiles' = [dstFiles EXCEPT ![FlacPath(f)] = "partial"]
        /\ lastAct' = [pos |-> pos, file |-> f, called |-> "convert",
                       result |-> "killed", parentOk |-> TRUE, logged |-> 0,
                       size |-> size[f], before |-> dstFiles[FlacPath(f)],
                       added |-> 0, encoder |-> TRUE, channels |-> 2]
  /\ invocations' = invocations + 1
  /\ clean' = FALSE
  /\ EndRun("interrupted")
  /\ UNCHANGED <<source, destExists, dstDirs, log, mode, pos, total_copied_size, runNo,
                 copies, prevStatus, prevClean, done, faults, doneAtStart>>

\* for dir_name in dirs: os.makedirs(destination_dir_path, exist_ok=True)
MirrorDir ==
  /\ InWalk
  /\ Entry.type = "dir"
  /\ UNCHANGED <<source, destExists, dstFiles, log, mode, total_copied_size, runNo,
                 copies, invocations, history, done>>
  /\ \E ok \in BOOLEAN :
       IF ok
       THEN /\ dstDirs' = makedirs(dstDirs, Entry.dir)
            /\ pos' = pos + 1
            /\ lastAct' = [NoAct EXCEPT !.pos = pos, !.result = "mkdir"]
            /\ UNCHANGED <<pc, status, successPrinted>>
       ELSE \* OSError is not caught in the walk and reaches main
            /\ EndRun("exception")
            /\ UNCHANGED <<dstDirs, pos, lastAct>>

\* The loop over os.walk is exhausted: copy_directory returns to main.
FinishWalk ==
  /\ pc = "walk"
  /\ pos > NEvents
  /\ EndRun("completed")
  /\ UNCHANGED <<source, destExists, dstDirs, dstFiles, log, mode, pos, total_copied_size,
                 runNo, lastAct, copies, invocations, history, done>>

\* The process is killed between two entries of the walk.
Interrupt ==
  /\ pc = "walk"
  /\ EndRun("interrupted")
  /\ UNCHANGED <<source, destExists, dstDirs, dstFiles, log, mode, pos, total_copied_size,
                 runNo, lastAct, copies, invocations, history, done>>

Next ==
  \/ StartRun
  \/ MirrorDir
  \/ ProcessAudio
  \/ ProcessOpaque
  \/ FinishWalk
  \/ Interrupt
  \/ KillDuringCopy
  \/ KillDuringConvert

Spec == Init /\ [][Next]_vars

\* ---------------------------------------------------------------- claims
\* Files the walk reaches (files below a pruned directory are not among them).
VisitedFiles ==
  {[dir |-> Events[i].dir, name |-> Events[i].name] :
     i \in {j \in 1..NEvents : Events[j].type = "file"}}

Ceiling == MAX_STORAGE_LIMIT_BYTES
Over == total_copied_size > Ceiling

WavSpellings ==
  {<<".", w, a, v>> : w \in {"w", "W"}, a \in {"a", "A"}, v \in {"v", "V"}}
HasAudioExtension(name) ==
  Len(name) >= 4 /\ SubSeq(name, Len(name) - 3, Len(name)) \in WavSpellings

\* C3: copy_file is only ever called for a file whose name does not end in the
\* audio-source extension (in any case), and convert_wav_to_flac only for a file
\* whose name does, in both run modes.
C3_KindDecides ==
  /\ lastAct.called = "copy_file" => ~HasAudioExtension(lastAct.file.name)
  /\ lastAct.called = "convert" => HasAudioExtension(lastAct.file.name)
  /\ (lastAct.file \in VisitedFiles /\ HasAudioExtension(lastAct.file.name))
       => lastAct.result \in {"skip", "converted", "encodefail", "probefail", "killed"}

C3_Witness ==
  /\ lastAct.called = "convert" /\ lastAct.file.name = F_B_WAV
  /\ lastAct.result = "converted" /\ mode = "Fresh"

\* C4: the running total exceeds the ceiling by at most the size of the file
\* considered last, and copy_file is only called with the running total, that
\* file's size included, at or below the ceiling.
C4_Budget ==
  /\ Over => (lastAct.result = "ceiling" /\ total_copied_size - lastAct.size <= Ceiling)
  /\ lastAct.called = "copy_file" => total_copied_size <= Ceiling

C4_Witness ==
  /\ Over /\ lastAct.result = "ceiling" /\ total_copied_size = Ceiling + 1

\* C5: a step of a run that leaves the running total over the ceiling (the step
\* that reaches the ceiling, and any step after it in that run) changes no
\* destination file or directory and no log row and calls neither copy_file nor
\* the transcoder, and once the total is over the ceiling the walk does not
\* advance in that run.
C5_HardStop ==
  [][(Over' /\ runNo' = runNo) =>
       /\ dstFiles' = dstFiles /\ dstDirs' = dstDirs /\ log' = log
       /\ copies' = copies /\ invocations' = invocations
       /\ pc' = "ended"
       /\ Over => pos' = pos]_vars

C5_Witness ==
  /\ status = "ceiling" /\ pos < NEvents
  /\ lastAct.file = [dir |-> <<D_m>>, name |-> F_g_bin]
  /\ dstFiles[lastAct.file] = "absent"
  /\ dstFiles[[dir |-> <<D_m, D_l>>, name |-> F_owav]] = "absent"

\* C6, as stated: an encoder that exits non-zero for a file appends exactly one
\* row naming that file to the failure log.
C6_AsStated ==
  lastAct.result = "encodefail" =>
    (lastAct.logged = 1 /\ Len(log) >= 1 /\ log[Len(log)].fileName = lastAct.file.name)

\* C7: an IOError while reading an opaque file's size or while copying it appends
\* exactly one row, whose fileName is the file's base name, and the walk goes on
\* with the next entry.
C7_OneRecord ==
  lastAct.result = "ioerror" =>
    /\ lastAct.logged = 1
    /\ Len(log) >= 1
    /\ log[Len(log)].fileName = lastAct.file.name
    /\ pos = lastAct.pos + 1

C7_Witness ==
  /\ lastAct.result = "ioerror" /\ lastAct.called = "copy_file"
  /\ lastAct.file.name = F_n_txt /\ dstFiles[lastAct.file] = "partial"
  /\ pc = "walk" /\ pos = lastAct.pos + 1
  /\ Len(log) = 1 /\ log[1].fileName = F_n_txt

\* C8, as stated: the success line is printed only when the walk visited every
\* file, not after a directory could not be created nor after the storage limit.
C8_AsStated == successPrinted => status = "completed"

\* C9: whenever copy_file or the transcoder is called for a file, the directory
\* that is to receive the file exists under the drive folder.
C9_ParentExists ==
  lastAct.called \in {"copy_file", "convert"} => lastAct.parentOk

C9_Witness ==
  /\ lastAct.called = "copy_file" /\ lastAct.result = "copied"
  /\ lastAct.file.dir = <<D_m, D_l>>

\* C10: every step leaves the rows already in the failure log as they are and
\* adds at most one row, at the end.
C10_AppendOnly ==
  [][/\ Len(log') >= Len(log)
     /\ Len(log') <= Len(log) + 1
     /\ SubSeq(log', 1, Len(log)) = log]_vars

C10_Witness ==
  /\ Len(log) = 2 /\ log[1] # log[2] /\ runNo = 2 /\ lastAct.logged = 1

\* The last step of the walk handled an audio file.
AudioHandled == lastAct.file # NoFile /\ HasAudioExtension(lastAct.file.name)
\* The last step of the walk handled an opaque file.
OpaqueHandled == lastAct.file # NoFile /\ ~HasAudioExtension(lastAct.file.name)

\* C11, as stated: in both run modes, when the compressed-format target of an
\* audio file already exists at the destination, the transcoder is not invoked
\* for that file and its outcome is a skip.
C11_AsStated ==
  (AudioHandled /\ lastAct.before # "absent") =>
    (lastAct.called = "none" /\ lastAct.result = "skip")

\* C11, amended: in Resume mode an audio file whose target already exists is
\* skipped, the transcoder is not invoked and the target is left as it was; in
\* Fresh mode every audio file is passed to the transcoder, whether or not its
\* target exists.
C11_SkipExisting ==
  /\ (AudioHandled /\ mode = "Resume" /\ lastAct.before # "absent") =>
       /\ lastAct.called = "none" /\ lastAct.result = "skip"
       /\ ~lastAct.encoder
       /\ dstFiles[FlacPath(lastAct.file)] = lastAct.before
  /\ (AudioHandled /\ mode = "Fresh") => lastAct.called = "convert"

C11_Witness ==
  /\ AudioHandled /\ mode = "Resume" /\ lastAct.file.name = F_B_WAV
  /\ lastAct.before = "complete" /\ lastAct.result = "skip"
  /\ invocations = 0

\* C12, as stated: the running total is the sum of the sizes of the opaque files
\* actually copied in the current run; an opaque file skipped because its
\* destination path exists adds nothing to it, and an audio file adds nothing.
C12_AsStated ==
  /\ (OpaqueHandled /\ lastAct.result = "skip") => lastAct.added = 0
  /\ AudioHandled => lastAct.added = 0

\* C13, as stated: when the probe of an audio file's channel count yields no
\* integer, the channel count is zero, the encoder is still invoked with it, and
\* the run is not aborted: it goes on to the next file.
C13_AsStated ==
  lastAct.result = "probefail" =>
    /\ lastAct.channels = 0
    /\ lastAct.encoder
    /\ status # "exception"
    /\ pos = lastAct.pos + 1

\* C19: when the free space is smaller than an opaque file's size, copy_file
\* returns without creating or truncating the destination file and without a
\* failure row; the file's size stays in the running total and the walk moves
\* on to the next entry.
C19_NoSpace ==
  lastAct.result = "nospace" =>
    /\ lastAct.called = "copy_file"
    /\ lastAct.logged = 0
    /\ lastAct.before = "absent"
    /\ dstFiles[OutputPath(lastAct.file)] = "absent"
    /\ lastAct.added = lastAct.size
    /\ total_copied_size >= lastAct.size
    /\ pos = lastAct.pos + 1

C19_Witness ==
  /\ lastAct.result = "nospace" /\ lastAct.file.name = F_n_txt
  /\ pc = "walk" /\ pos = lastAct.pos + 1
  /\ total_copied_size = lastAct.size /\ log = <<>>

\* C14, as stated: a rerun against a destination that a prior run of the same
\* source populated (it holds the mirror folder and files of that run) is
\* classified Resume.
C14_AsStated ==
  (runNo >= 2 /\ pc = "walk" /\ doneAtStart # {} /\ <<>> \in dstDirs) => mode = "Resume"

\* The mirror folder is a subdirectory of the destination root.
UnderDestination == startswith(drive_folder, DestinationPath \o <<Sep>>)

\* C15, as stated: for every label get_drive_name can return, the raw source
\* path included, the mirror folder a run writes under is a subdirectory of the
\* destination root, and the run never writes inside the source tree.
C15_AsStated ==
  lastAct.result \in {"copied", "converted"} =>
    (UnderDestination /\ ~startswith(drive_folder, SourcePath))

\* Names of pruned directories in the source tree, and paths at or below one.
PrunedNames == {D_hidden, D_svi}
UnderPruned(path) == \E i \in 1..Len(path) : path[i] \in PrunedNames

\* C16: a directory whose name starts with '.' or is, lower-cased, the reserved
\* name is pruned at any depth: the walk never handles an entry at or below it,
\* so it is never created under the mirror folder, and no file beneath it is
\* copied, transcoded, counted toward the total or recorded in the failure log.
C16_Pruning ==
  /\ lastAct.pos > 0 => ~UnderPruned(Events[lastAct.pos].dir)
  /\ InWalk => ~UnderPruned(Entry.dir)
  /\ \A d \in dstDirs \ InitialDirs : ~UnderPruned(d)
  /\ \A i \in 1..Len(log) : ~UnderPruned(log[i].directory)
  /\ \A f \in AllFiles :
       UnderPruned(f.dir) =>
         (f \notin done /\ dstFiles[OutputPath(f)] = InitialFile(OutputPath(f)))

C16_Witness ==
  /\ status = "completed" /\ done = VisitedFiles /\ UnderDestination
  /\ Cardinality(AllFiles \ VisitedFiles) = 4
  /\ \A f \in AllFiles \ VisitedFiles :
       /\ UnderPruned(f.dir) /\ f.dir \notin dstDirs
       /\ dstFiles[OutputPath(f)] = "absent"
  /\ <<D_m, D_l>> \in dstDirs

\* Destination paths of opaque source files.
OpaquePaths == {p \in AllFiles : ~HasAudioExtension(p.name)}

\* C17: in both modes, the destination path of an opaque file that exists before
\* the file is processed is never written: no step changes an existing opaque
\* destination file, and for such a file copy_file is not called, also when
\* what exists is a truncated earlier copy.
C17_Untouched ==
  /\ [](OpaqueHandled /\ lastAct.before # "absent" =>
          /\ lastAct.called = "none"
          /\ lastAct.result \in {"skip", "ceiling", "ioerror"}
          /\ dstFiles[lastAct.file] = lastAct.before)
  /\ [][\A p \in OpaquePaths : dstFiles[p] # "absent" => dstFiles'[p] = dstFiles[p]]_vars

C17_Witness ==
  /\ OpaqueHandled /\ mode = "Fresh" /\ lastAct.before = "partial"
  /\ lastAct.result = "skip" /\ dstFiles[lastAct.file] = "partial"
  /\ status = "completed"

====
